---- MODULE Spec2Model ----
(***************************************************************************)
(* A model of khamake's generateBindings (src/src/Khabind.ts): the         *)
(* staleness evaluation, the binding generator, the source scan, the       *)
(* throttled compile jobs and the link of the JavaScript library.          *)
(*                                                                         *)
(* JavaScript runs one callback at a time, so every action is one callback *)
(* of the event loop together with the promise continuations it triggers:  *)
(* the start of generateBindings, the close of the Haxe process, the       *)
(* continuation of compileSource after its file-system awaits, and the     *)
(* 'close' handler of a compiler process.  The exit of a compiler process  *)
(* (an operating-system event that writes the object file) is an action of *)
(* its own, because it is not ordered with the callbacks.                  *)
(*                                                                         *)
(* Throttle.all (promise-parallel-throttle 3.x, called at Khabind.ts       *)
(* 154-157 with maxInProgress and failFast: true) is modelled by its       *)
(* documented behaviour: it starts min(maxInProgress, n) tasks, starts the *)
(* next task each time one resolves, and on the first rejection sets       *)
(* failedFast and rejects at once with that task's error.                  *)
(*                                                                         *)
(* A state is handled as a record (State) so that the sequential code of a *)
(* callback is the composition of operators on records; Commit assigns the *)
(* record to the variables.                                                *)
(*                                                                         *)
(* A file is named by a short tuple; its path is a sequence of characters  *)
(* computed from the layout of the library (bindOpts.sourcesDir), and the  *)
(* source scan and the path of an object file are computed on these paths  *)
(* as the code computes them with the path module of Node.                 *)
(***************************************************************************)
EXTENDS Integers, Sequences, FiniteSets, TLC

\* Bounds of the model.
MaxSources == 3     \* C/C++ files the source tree may hold
MaxCpus == 2        \* os.cpus().length ranges over 1..MaxCpus
MaxMtime == 2       \* modification times of the files present at the start
MaxRuns == 2        \* successive invocations of generateBindings

Sources == 1..MaxSources
\* Where every combination of the other files is explored, one source fewer.
FewSources == 1..(MaxSources - 1)

\* The files the pipeline looks at (lines 39-41, 99, 114).
Khafile == <<"khafile.js", 0>>
WebidlFile == <<"idlFile", 0>>
JsLibrary == <<"khabind/nativeLib.js", 0>>
Korefile == <<"korefile.js", 0>>
SourceFile(i) == <<"source", i>>
TargetFile(i) == <<"bytecode", i>>

VARIABLES
    \* the environment of the process
    envEMSCRIPTEN,    \* process.env.EMSCRIPTEN is set
    envEmpty,         \* ... and it is set to the empty string
    jsTarget,         \* options.target is krom or ends with html5
    korehl,           \* the korehl argument
    cpus,             \* os.cpus().length
    emccArgs,         \* bindOpts.emccArgs
    layout,           \* bindOpts.sourcesDir and where the sources lie
    \* the file system: existing path -> modification time, and the clock
    files,
    clock,
    \* the invocation of generateBindings and where it stands
    invocation,
    pc,
    recompileAll,
    rebuildBindings,
    emsdk,
    emcc,
    sourceFiles,
    targetFiles,
    invalidateCache,
    \* the compile jobs: the promise of each job, the captured stderr and the
    \* exit code of its compiler process, its needsRecompile
    task,
    stderr,
    code,
    needsRecompile,
    \* Throttle.all
    failedFast,
    amountDone,
    currentTaskIndex,
    rejectedIndexes,
    taskResults,
    throttle,
    \* what was logged and thrown
    log,
    \* subprocesses started in this invocation
    haxeRuns,
    haxeArg,
    compileRuns,
    produced,         \* the compiler of the job wrote its object file
    linkRuns,
    linkArgs,
    linkWrote,
    output,           \* what the linker printed (line 172)
    \* the calls of ensureEmscripten and its reads of process.env.EMSCRIPTEN
    ensureCalls,
    envReads,
    \* the outcome of the previous invocations
    prev

vars == <<envEMSCRIPTEN, envEmpty, jsTarget, korehl, cpus, emccArgs, layout, files, clock, invocation, pc,
          recompileAll, rebuildBindings, emsdk, emcc, sourceFiles, targetFiles,
          invalidateCache, task, stderr, code, needsRecompile, failedFast,
          amountDone, currentTaskIndex, rejectedIndexes, taskResults, throttle,
          log, haxeRuns, haxeArg, compileRuns, produced, linkRuns, linkArgs, linkWrote,
          output, ensureCalls, envReads, prev>>

\* The state as a record.
State ==
    [envEMSCRIPTEN |-> envEMSCRIPTEN, envEmpty |-> envEmpty, jsTarget |-> jsTarget, korehl |-> korehl,
     cpus |-> cpus, emccArgs |-> emccArgs, layout |-> layout, files |-> files, clock |-> clock, invocation |-> invocation,
     pc |-> pc, recompileAll |-> recompileAll, rebuildBindings |-> rebuildBindings,
     emsdk |-> emsdk, emcc |-> emcc, sourceFiles |-> sourceFiles,
     targetFiles |-> targetFiles, invalidateCache |-> invalidateCache,
     task |-> task, stderr |-> stderr, code |-> code,
     needsRecompile |-> needsRecompile, failedFast |-> failedFast,
     amountDone |-> amountDone, currentTaskIndex |-> currentTaskIndex,
     rejectedIndexes |-> rejectedIndexes, taskResults |-> taskResults,
     throttle |-> throttle, log |-> log, haxeRuns |-> haxeRuns,
     haxeArg |-> haxeArg, compileRuns |-> compileRuns, produced |-> produced,
     linkRuns |-> linkRuns,
     linkArgs |-> linkArgs, linkWrote |-> linkWrote, output |-> output,
     ensureCalls |-> ensureCalls, envReads |-> envReads, prev |-> prev]

\* The record is bound once, so that it is computed once for all the variables.
Commit(state) ==
    \E s \in {state} :
        /\ envEMSCRIPTEN' = s.envEMSCRIPTEN /\ envEmpty' = s.envEmpty
        /\ jsTarget' = s.jsTarget
        /\ korehl' = s.korehl /\ cpus' = s.cpus /\ emccArgs' = s.emccArgs
        /\ layout' = s.layout
        /\ files' = s.files /\ clock' = s.clock /\ invocation' = s.invocation
        /\ pc' = s.pc /\ recompileAll' = s.recompileAll
        /\ rebuildBindings' = s.rebuildBindings
        /\ emsdk' = s.emsdk /\ emcc' = s.emcc
        /\ sourceFiles' = s.sourceFiles /\ targetFiles' = s.targetFiles
        /\ invalidateCache' = s.invalidateCache
        /\ task' = s.task /\ stderr' = s.stderr /\ code' = s.code
        /\ needsRecompile' = s.needsRecompile
        /\ failedFast' = s.failedFast /\ amountDone' = s.amountDone
        /\ currentTaskIndex' = s.currentTaskIndex
        /\ rejectedIndexes' = s.rejectedIndexes /\ taskResults' = s.taskResults
        /\ throttle' = s.throttle /\ log' = s.log
        /\ haxeRuns' = s.haxeRuns /\ haxeArg' = s.haxeArg
        /\ compileRuns' = s.compileRuns /\ produced' = s.produced
        /\ linkRuns' = s.linkRuns
        /\ linkArgs' = s.linkArgs /\ linkWrote' = s.linkWrote
        /\ output' = s.output
        /\ ensureCalls' = s.ensureCalls /\ envReads' = s.envReads
        /\ prev' = s.prev

----------------------------------------------------------------------------
\* The file system.

existsSync(s, p) == p \in DOMAIN s.files

\* fs.statSync(p).mtime of an existing file.
mtimeOf(s, p) == s.files[p]

\* A process writes file p: the clock advances and p gets the new time.
WriteFile(s, p) ==
    [s EXCEPT !.clock = @ + 1,
              !.files = [q \in (DOMAIN s.files) \cup {p} |->
                            IF q = p THEN s.clock + 1 ELSE s.files[q]]]

----------------------------------------------------------------------------
\* Paths (the path module of Node on POSIX) and the string operations the code
\* applies to them. A string is a sequence of one-character strings.

\* The segments of path p from position i on; cur is the segment read so far.
RECURSIVE splitFrom(_, _, _)
splitFrom(p, i, cur) ==
    IF i > Len(p)
    THEN (IF cur = <<>> THEN <<>> ELSE <<cur>>)
    ELSE IF p[i] = "/"
         THEN (IF cur = <<>> THEN <<>> ELSE <<cur>>) \o splitFrom(p, i + 1, <<>>)
         ELSE splitFrom(p, i + 1, Append(cur, p[i]))

split(p) == splitFrom(p, 1, <<>>)

\* The segments with "." dropped and ".." resolved; out is the result so far.
RECURSIVE normalizeFrom(_, _, _)
normalizeFrom(segs, i, out) ==
    IF i > Len(segs) THEN out
    ELSE IF segs[i] = <<".">> THEN normalizeFrom(segs, i + 1, out)
    ELSE IF segs[i] = <<".", ".">>
         THEN normalizeFrom(segs, i + 1,
                            IF out = <<>> THEN <<>>
                            ELSE SubSeq(out, 1, Len(out) - 1))
         ELSE normalizeFrom(segs, i + 1, Append(out, segs[i]))

\* The segments joined by "/".
RECURSIVE join(_)
join(segs) ==
    IF segs = <<>> THEN <<>>
    ELSE IF Len(segs) = 1 THEN segs[1]
    ELSE segs[1] \o <<"/">> \o join(Tail(segs))

\* path.resolve(from, to) for an absolute path from.
resolve(from, to) ==
    <<"/">> \o join(normalizeFrom(IF to # <<>> /\ to[1] = "/"
                                  THEN split(to)
                                  ELSE split(from) \o split(to), 1, <<>>))

\* The length of the longest common prefix of two sequences, from n on.
RECURSIVE commonFrom(_, _, _)
commonFrom(a, b, n) ==
    IF n < Len(a) /\ n < Len(b) /\ a[n + 1] = b[n + 1]
    THEN commonFrom(a, b, n + 1)
    ELSE n

\* path.relative(from, to) for absolute, normalized paths.
relative(from, to) ==
    LET f == split(from)
        t == split(to)
        c == commonFrom(f, t, 0)
    IN  join([k \in 1..(Len(f) - c) |-> <<".", ".">>] \o SubSeq(t, c + 1, Len(t)))

\* The position of the last "." of str at or before position i, or 0.
RECURSIVE lastDot(_, _)
lastDot(str, i) ==
    IF i = 0 THEN 0 ELSE IF str[i] = "." THEN i ELSE lastDot(str, i - 1)

\* path.extname(p): from the last "." of the last segment, unless the segment
\* starts with it.
extname(p) ==
    LET segs == split(p)
        base == IF segs = <<>> THEN <<>> ELSE segs[Len(segs)]
        dot == lastDot(base, Len(base))
    IN  IF dot <= 1 THEN <<>> ELSE SubSeq(base, dot, Len(base))

\* str.endsWith(suffix).
endsWith(str, suffix) ==
    /\ Len(suffix) <= Len(str)
    /\ SubSeq(str, Len(str) - Len(suffix) + 1, Len(str)) = suffix

\* str.substr(0, length).
substr(str, length) ==
    IF length <= 0 THEN <<>>
    ELSE IF length >= Len(str) THEN str
    ELSE SubSeq(str, 1, length)

----------------------------------------------------------------------------
\* The library on disk. libRoot, bindOpts.nativeLib and bindOpts.idlFile are
\* fixed; bindOpts.sourcesDir is a directory inside the library, the library
\* root itself, a directory beside the library, or the name of a file.

libRoot == <<"/", "w", "/", "l", "i", "b">>
nativeLib == <<"n">>
idlFile == <<"n", ".", "i", "d", "l">>

SourcesDirs == <<<<"s", "r", "c">>, <<".">>, <<".", ".", "/", "s", "r", "c">>, <<"k", "h", "a", "f", "i", "l", "e", ".", "j", "s">>>>

\* A layout is bindOpts.sourcesDir and whether the C++ sources lie in a
\* subdirectory of it.
LayoutSeq ==
    [n \in 1..(2 * Len(SourcesDirs)) |->
        [sourcesDir |-> SourcesDirs[(n + 1) \div 2], deep |-> n % 2 = 0]]

Layouts == {LayoutSeq[n] : n \in 1..Len(LayoutSeq)}

\* The number of a layout: the tables below are computed once for each.
LayoutNo(l) == CHOOSE n \in 1..Len(LayoutSeq) : LayoutSeq[n] = l

Standard == [sourcesDir |-> <<"s", "r", "c">>, deep |-> TRUE]

Letters == <<"a", "b", "c", "d", "e", "f", "g", "h">>

\* The path of source i: the glue file of the generator (line 67), a C file of
\* sourcesDir, and C++ files of sourcesDir or of its subdirectory d.
sourcePath(l, i) ==
    IF i = 1 THEN resolve(libRoot, <<"k", "h", "a", "b", "i", "n", "d", "/">> \o nativeLib \o <<".", "c", "p", "p">>)
    ELSE IF i = 2 THEN resolve(resolve(libRoot, l.sourcesDir), <<"a", ".", "c">>)
    ELSE resolve(resolve(libRoot, l.sourcesDir),
                 (IF l.deep THEN <<"d", "/">> ELSE <<>>) \o <<Letters[i - 2]>> \o <<".", "c", "p", "p">>)

\* Lines 112-113.
relativeTargetFile(file) ==
    substr(relative(libRoot, file), Len(file) - Len(extname(file))) \o <<".", "b", "c">>

\* Line 114.
targetFile(file) ==
    resolve(libRoot, <<"k", "h", "a", "b", "i", "n", "d", "/", "b", "y", "t", "e", "c", "o", "d", "e", "/">> \o relativeTargetFile(file))

\* The sources whose object file has the path of that of source i, and the
\* first of them, which names the object file in the file system.
SameTarget(l, i) ==
    {j \in Sources : targetFile(sourcePath(l, j)) = targetFile(sourcePath(l, i))}

ObjectOf ==
    [n \in 1..Len(LayoutSeq) |->
        [i \in Sources |-> CHOOSE j \in SameTarget(LayoutSeq[n], i) :
                               \A k \in SameTarget(LayoutSeq[n], i) : j <= k]]

\* Every file the model knows, in the order the directory listings give them.
AllFiles ==
    <<Khafile, WebidlFile, Korefile, JsLibrary>>
        \o [i \in Sources |-> SourceFile(i)] \o [i \in Sources |-> TargetFile(i)]

\* The path of a file, as segments.
pathOf(l, q) ==
    split(IF q = Khafile THEN resolve(libRoot, <<"k", "h", "a", "f", "i", "l", "e", ".", "j", "s">>)
          ELSE IF q = WebidlFile THEN resolve(libRoot, idlFile)
          ELSE IF q = Korefile THEN resolve(libRoot, <<"k", "o", "r", "e", "f", "i", "l", "e", ".", "j", "s">>)
          ELSE IF q = JsLibrary
               THEN resolve(libRoot, <<"k", "h", "a", "b", "i", "n", "d", "/">> \o nativeLib \o <<".", "j", "s">>)
          ELSE IF q[1] = "source" THEN sourcePath(l, q[2])
          ELSE targetFile(sourcePath(l, q[2])))

Paths ==
    [n \in 1..Len(LayoutSeq) |->
        [k \in 1..Len(AllFiles) |-> pathOf(LayoutSeq[n], AllFiles[k])]]

\* Sequence a is a prefix of sequence b.
IsPrefix(a, b) == Len(a) <= Len(b) /\ SubSeq(b, 1, Len(a)) = a

\* The positions in AllFiles of the files that exist at or below path p.
Below(s, p) ==
    {k \in 1..Len(AllFiles) :
        AllFiles[k] \in DOMAIN s.files
            /\ IsPrefix(p, Paths[LayoutNo(s.layout)][k])}

\* fs.statSync(p).isDirectory(): a directory exists as long as it holds a file.
isDirectory(s, p) == \E k \in Below(s, p) : Paths[LayoutNo(s.layout)][k] # p

\* fs.readdirSync(dir): the names in dir, from position k of AllFiles on; below
\* are the positions of the files below dir, names[k] is the name in dir on the
\* way to file k.
RECURSIVE readdirFrom(_, _, _)
readdirFrom(below, names, k) ==
    IF k > Len(AllFiles) THEN <<>>
    ELSE IF k \in below /\ \A j \in below : j < k => names[j] # names[k]
         THEN <<names[k]>> \o readdirFrom(below, names, k + 1)
         ELSE readdirFrom(below, names, k + 1)

readdirSync(s, dir) ==
    CHOOSE listing \in
        {readdirFrom(below, names, 1) :
            below \in {Below(s, dir)},
            names \in {[k \in 1..Len(AllFiles) |->
                            IF Len(Paths[LayoutNo(s.layout)][k]) > Len(dir)
                            THEN Paths[LayoutNo(s.layout)][k][Len(dir) + 1]
                            ELSE <<>>] \o <<>>}} : TRUE

\* The file at path p.
fileAt(s, p) ==
    AllFiles[CHOOSE k \in Below(s, p) : Paths[LayoutNo(s.layout)][k] = p]

\* The scan roots of lines 105-106 under each layout, as segments.
Roots ==
    [n \in 1..Len(LayoutSeq) |->
        <<split(resolve(libRoot, LayoutSeq[n].sourcesDir)),
          split(resolve(libRoot, <<"k", "h", "a", "b", "i", "n", "d">>))>>]

----------------------------------------------------------------------------
\* What a fresh invocation holds in memory (lines 37-38, 73-74, 87-89).

NoStderr == 0

\* The linker has printed nothing.
NoOutput == [stderr |-> FALSE, stdout |-> FALSE]

FreshMemory(s) ==
    [s EXCEPT !.pc = "start", !.recompileAll = FALSE, !.rebuildBindings = FALSE,
              !.emsdk = "", !.emcc = "", !.sourceFiles = <<>>,
              !.targetFiles = <<>>, !.invalidateCache = FALSE,
              !.task = [i \in Sources |-> "none"],
              !.stderr = [i \in Sources |-> NoStderr],
              !.code = [i \in Sources |-> 0],
              !.needsRecompile = [i \in Sources |-> FALSE],
              !.failedFast = FALSE, !.amountDone = 0, !.currentTaskIndex = 0,
              !.rejectedIndexes = <<>>,
              !.taskResults = [i \in Sources |-> NoStderr],
              !.throttle = "none", !.log = {},
              !.haxeRuns = 0, !.haxeArg = FALSE,
              !.compileRuns = [i \in Sources |-> 0],
              !.produced = [i \in Sources |-> FALSE],
              !.linkRuns = 0, !.linkArgs = <<>>, !.linkWrote = FALSE,
              !.output = NoOutput, !.ensureCalls = 0, !.envReads = 0]

\* The file systems a run may start from. Any of the three files may be missing
\* and is stamped with any time up to MaxMtime, the time of the clock. Any set
\* of sources exists, and an existing source may have an object file; the code
\* reads the two times of such a pair only to compare them with each other
\* (line 120), so one pair stands for each way they compare: the later of the
\* two is stamped MaxMtime.
PairStates ==
    {<<MaxMtime, 0>>} \cup
    {p \in (1..MaxMtime) \X (1..MaxMtime) : p[1] = MaxMtime \/ p[2] = MaxMtime}

TopFiles == {Khafile, WebidlFile, JsLibrary}

FileSystems(tops, presents) ==
    { [q \in DOMAIN top \cup {SourceFile(i) : i \in present}
                        \cup {TargetFile(i) : i \in {j \in present : pair[j][2] # 0}} |->
           IF q \in TopFiles THEN top[q]
           ELSE IF q[1] = "source" THEN pair[q[2]][1] ELSE pair[q[2]][2]] :
        top \in tops, present \in presents, pair \in [Sources -> PairStates] }

InitialFiles ==
    FileSystems(UNION {[D -> 1..MaxMtime] : D \in SUBSET TopFiles},
                SUBSET FewSources)

\* The file systems the compile pool is explored from: every source exists,
\* khafile.js and the idl file are old, the library is missing or up to date.
PoolTops ==
    {top \in UNION {[D -> 1..MaxMtime] : D \in {TopFiles, TopFiles \ {JsLibrary}}} :
         /\ top[Khafile] = 1 /\ top[WebidlFile] = 1
         /\ JsLibrary \in DOMAIN top => top[JsLibrary] = MaxMtime}

PoolFiles == FileSystems(PoolTops, {Sources})

\* The same with the sources of FewSources.
FewFiles == FileSystems(PoolTops, {FewSources})

InitMemory ==
    /\ clock = MaxMtime
    /\ invocation = 1
    /\ pc = "start"
    /\ recompileAll = FALSE
    /\ rebuildBindings = FALSE
    /\ emsdk = ""
    /\ emcc = ""
    /\ sourceFiles = <<>>
    /\ targetFiles = <<>>
    /\ invalidateCache = FALSE
    /\ task = [i \in Sources |-> "none"]
    /\ stderr = [i \in Sources |-> NoStderr]
    /\ code = [i \in Sources |-> 0]
    /\ needsRecompile = [i \in Sources |-> FALSE]
    /\ failedFast = FALSE
    /\ amountDone = 0
    /\ currentTaskIndex = 0
    /\ rejectedIndexes = <<>>
    /\ taskResults = [i \in Sources |-> NoStderr]
    /\ throttle = "none"
    /\ log = {}
    /\ haxeRuns = 0
    /\ haxeArg = FALSE
    /\ compileRuns = [i \in Sources |-> 0]
    /\ produced = [i \in Sources |-> FALSE]
    /\ linkRuns = 0
    /\ linkArgs = <<>>
    /\ linkWrote = FALSE
    /\ output = NoOutput
    /\ ensureCalls = 0
    /\ envReads = 0
    /\ prev = <<>>

Init ==
    /\ envEMSCRIPTEN \in BOOLEAN
    /\ envEmpty \in (IF envEMSCRIPTEN THEN BOOLEAN ELSE {FALSE})
    /\ jsTarget \in BOOLEAN
    /\ korehl \in (IF jsTarget THEN {FALSE} ELSE BOOLEAN)
    /\ cpus \in 1..MaxCpus
    /\ emccArgs \in {<<>>, <<"-s">>}
    /\ layout = Standard
    /\ files \in InitialFiles
    /\ InitMemory

InitPool ==
    /\ envEMSCRIPTEN \in BOOLEAN
    /\ envEmpty = FALSE
    /\ jsTarget = TRUE
    /\ korehl = FALSE
    /\ cpus \in 1..MaxCpus
    /\ emccArgs = <<"-s">>
    /\ layout = Standard
    /\ files \in PoolFiles
    /\ InitMemory

----------------------------------------------------------------------------
\* ensureEmscripten (lines 75-84).

\* The call throws: emsdk is still "" and the environment variable is not set.
ensureEmscriptenThrows(s) == s.emsdk = "" /\ ~s.envEMSCRIPTEN

\* The state the call leaves. A call that finds emsdk different from "" returns
\* at once; undefined, left by a call that threw, is different from "". Any
\* other call reads process.env.EMSCRIPTEN (line 77): an empty value is not
\* undefined, so it is kept, and path.join("", "emcc") is "emcc".
ensureEmscripten(s) ==
    LET c == [s EXCEPT !.ensureCalls = @ + 1] IN
    IF s.emsdk # "" THEN c
    ELSE LET r == [c EXCEPT !.envReads = @ + 1] IN
         IF ~s.envEMSCRIPTEN
         THEN [r EXCEPT !.emsdk = "undefined",
                        !.log = @ \cup {<<"error", "EMSCRIPTEN not set", 0>>}]
         ELSE IF s.envEmpty
              THEN [r EXCEPT !.emsdk = "", !.emcc = "emcc"]
              ELSE [r EXCEPT !.emsdk = "emsdk", !.emcc = "emsdk/emcc"]

----------------------------------------------------------------------------
\* The link of the JavaScript library (lines 161-186). lk is what the linker
\* process does: whether it writes the library, and whether it prints to stderr
\* and to stdout.

LinkerBehaviours == [wrote : BOOLEAN, stderr : BOOLEAN, stdout : BOOLEAN]

\* A variant that forgets the missing library.
needsLink_OnlyChanged(s) == s.invalidateCache

\* The condition of line 162.
needsLink(s) == s.invalidateCache \/ ~existsSync(s, JsLibrary)

\* A variant that reports the linker's stderr like its stdout.
spawnLinker_AllInfo(s, lk) ==
    LET s1 == [s EXCEPT !.linkRuns = @ + 1, !.linkArgs = s.targetFiles,
                        !.linkWrote = lk.wrote,
                        !.output = [stderr |-> lk.stderr, stdout |-> lk.stdout]]
        s2 == IF lk.wrote THEN WriteFile(s1, JsLibrary) ELSE s1
        s3 == IF lk.stderr
              THEN [s2 EXCEPT !.log = @ \cup {<<"info", "linker stderr", 0>>}]
              ELSE s2
    IN  IF lk.stdout
        THEN [s3 EXCEPT !.log = @ \cup {<<"info", "linker stdout", 0>>}]
        ELSE s3

\* child_process.spawnSync(emcc, [...targetFiles, ...args]) and the logging of
\* its output (lines 172-181).
spawnLinker(s, lk) ==
    LET s1 == [s EXCEPT !.linkRuns = @ + 1, !.linkArgs = s.targetFiles,
                        !.linkWrote = lk.wrote,
                        !.output = [stderr |-> lk.stderr, stdout |-> lk.stdout]]
        s2 == IF lk.wrote THEN WriteFile(s1, JsLibrary) ELSE s1
        s3 == IF lk.stderr
              THEN [s2 EXCEPT !.log = @ \cup {<<"error", "linker stderr", 0>>}]
              ELSE s2
    IN  IF lk.stdout
        THEN [s3 EXCEPT !.log = @ \cup {<<"info", "linker stdout", 0>>}]
        ELSE s3

\* A variant that resolves the toolchain before it looks whether to link.
linkStage_Eager(s, lk) ==
    IF ensureEmscriptenThrows(s)
    THEN [ensureEmscripten(s) EXCEPT !.pc = "threw"]
    ELSE LET s1 == ensureEmscripten(s) IN
         IF needsLink(s1)
         THEN IF Len(s1.emccArgs) = 0 \/ s1.emcc = ""
              THEN [s1 EXCEPT !.pc = "threw"]
              ELSE [spawnLinker(s1, lk) EXCEPT !.pc = "done"]
         ELSE [s1 EXCEPT !.pc = "done"]

linkStage(s, lk) ==
    IF needsLink(s)
    THEN IF ensureEmscriptenThrows(s)
         THEN [ensureEmscripten(s) EXCEPT !.pc = "threw"]
         ELSE LET s1 == ensureEmscripten(s) IN
              \* reduce of an empty emccArgs throws (line 168), and so does
              \* spawnSync of an empty file name
              IF Len(s1.emccArgs) = 0 \/ s1.emcc = ""
              THEN [s1 EXCEPT !.pc = "threw"]
              ELSE [spawnLinker(s1, lk) EXCEPT !.pc = "done"]
    ELSE [s EXCEPT !.pc = "done"]

\* The catch handler of line 157 logs the error Throttle.all rejected with: the
\* result of the first rejected task.
catchThrottle(s) ==
    IF s.throttle = "rejected"
    THEN [s EXCEPT !.log = @ \cup
              {<<"info", "compile stderr", s.taskResults[s.rejectedIndexes[1]]>>}]
    ELSE s

\* generateBindings awaits Throttle.all (line 154): once that promise is settled
\* it goes on, in the same turn of the event loop, to the catch handler and the
\* link.
afterThrottle(s, lk) ==
    IF s.pc = "compile" /\ s.throttle \in {"resolved", "rejected"}
    THEN linkStage(catchThrottle(s), lk)
    ELSE s

----------------------------------------------------------------------------
\* compileSource (lines 109-150) and Throttle.all (lines 153-159).

\* The object file of a source file (lines 112-114): the file at the path
\* targetFile gives.
targetFileOf(file) == TargetFile(ObjectOf[LayoutNo(layout)][file[2]])

\* A variant that puts the object file at the front of targetFiles.
executeTask_Unshift(s, index) ==
    [s EXCEPT !.task[index] = "checking",
              !.targetFiles = <<targetFileOf(s.sourceFiles[index])>> \o @]

\* Throttle calls tasks[index](): compileSource runs to its first await, having
\* pushed the object file on targetFiles (lines 111-119).
executeTask(s, index) ==
    [s EXCEPT !.task[index] = "checking",
              !.targetFiles = Append(@, targetFileOf(s.sourceFiles[index]))]

nextTask(s) ==
    executeTask([s EXCEPT !.currentTaskIndex = @ + 1], s.currentTaskIndex + 1)

\* A variant that never resolves the promise of Throttle.all.
taskDone_NoResolve(s) ==
    IF s.failedFast THEN s
    ELSE LET s1 == [s EXCEPT !.amountDone = @ + 1] IN
         IF s1.currentTaskIndex < Len(s1.sourceFiles) THEN nextTask(s1) ELSE s1

\* A task resolved. After a failure nothing more is counted or started.
taskDone(s) ==
    IF s.failedFast THEN s
    ELSE LET s1 == [s EXCEPT !.amountDone = @ + 1] IN
         IF s1.amountDone = Len(s1.sourceFiles)
         THEN [s1 EXCEPT !.throttle = "resolved"]
         ELSE IF s1.currentTaskIndex < Len(s1.sourceFiles)
              THEN nextTask(s1)
              ELSE s1

\* A variant without failFast: the error is recorded and the pool goes on.
handleError_GoOn(s, error, index) ==
    LET s1 == [s EXCEPT !.taskResults[index] = error,
                        !.rejectedIndexes = Append(@, index)]
    IN  IF s1.currentTaskIndex < Len(s1.sourceFiles) THEN nextTask(s1) ELSE s1

\* A variant that runs the failed task again.
handleError_Retry(s, error, index) == executeTask(s, index)

\* A task rejected with error: with failFast the throttle rejects at once.
handleError(s, error, index) ==
    [s EXCEPT !.taskResults[index] = error,
              !.rejectedIndexes = Append(@, index),
              !.failedFast = TRUE,
              !.throttle = IF @ = "pending" THEN "rejected" ELSE @]

RECURSIVE spawnFirst(_, _)
spawnFirst(s, n) == IF n = 0 THEN s ELSE nextTask(spawnFirst(s, n - 1))

Min(a, b) == IF a < b THEN a ELSE b

\* A variant that starts every job at once.
throttleAll_NoLimit(s) ==
    LET n == Len(s.sourceFiles)
        s1 == [s EXCEPT !.task = [i \in Sources |->
                                     IF i <= n THEN "queued" ELSE "none"]]
    IN  IF n = 0
        THEN [s1 EXCEPT !.throttle = "resolved"]
        ELSE spawnFirst([s1 EXCEPT !.throttle = "pending"], n)

\* Throttle.all(jobs, {maxInProgress: os.cpus().length, failFast: true}).
throttleAll(s) ==
    LET n == Len(s.sourceFiles)
        s1 == [s EXCEPT !.task = [i \in Sources |->
                                     IF i <= n THEN "queued" ELSE "none"]]
    IN  IF n = 0
        THEN [s1 EXCEPT !.throttle = "resolved"]
        ELSE spawnFirst([s1 EXCEPT !.throttle = "pending"], Min(s.cpus, n))

\* A variant that does not look at recompileAll.
needsCompile_IgnoreAll(s, file) ==
    IF existsSync(s, targetFileOf(file))
    THEN mtimeOf(s, file) > mtimeOf(s, targetFileOf(file))
    ELSE TRUE

\* A variant that keeps any object file that exists.
needsCompile_KeepAny(s, file) ==
    IF existsSync(s, targetFileOf(file)) THEN s.recompileAll ELSE TRUE

\* The decision of lines 119-124.
needsCompile(s, file) ==
    IF existsSync(s, targetFileOf(file))
    THEN s.recompileAll \/ mtimeOf(s, file) > mtimeOf(s, targetFileOf(file))
    ELSE TRUE

\* child_process.spawn(emcc, ...) (lines 130-133); an empty file name throws
\* inside the async executor, whose promise then never settles.
spawnCompiler(s, index) ==
    IF s.emcc = ""
    THEN [s EXCEPT !.task[index] = "hung"]
    ELSE [s EXCEPT !.task[index] = "running", !.compileRuns[index] = @ + 1]

\* A variant that compiles without setting invalidateCache.
compileSourceCheck_NoFlag(s, index, lk) ==
    IF needsCompile(s, s.sourceFiles[index])
    THEN IF ensureEmscriptenThrows(s)
         THEN [ensureEmscripten(s) EXCEPT !.task[index] = "hung"]
         ELSE spawnCompiler([ensureEmscripten(s) EXCEPT
                                 !.needsRecompile[index] = TRUE], index)
    ELSE afterThrottle(taskDone([s EXCEPT !.task[index] = "resolved"]), lk)

\* compileSource after its awaits (lines 119-148).
compileSourceCheck(s, index, lk) ==
    IF needsCompile(s, s.sourceFiles[index])
    THEN IF ensureEmscriptenThrows(s)
         THEN [ensureEmscripten(s) EXCEPT !.task[index] = "hung"]
         ELSE spawnCompiler([ensureEmscripten(s) EXCEPT
                                 !.needsRecompile[index] = TRUE,
                                 !.invalidateCache = TRUE], index)
    ELSE afterThrottle(taskDone([s EXCEPT !.task[index] = "resolved"]), lk)

\* A variant that goes by the exit code.
onClose_ExitCode(s, index, lk) ==
    IF s.code[index] # 0
    THEN afterThrottle(handleError([s EXCEPT !.task[index] = "rejected"],
                                   s.stderr[index], index), lk)
    ELSE afterThrottle(taskDone([s EXCEPT !.task[index] = "resolved"]), lk)

\* run.on('close') (lines 139-145): the exit code is not looked at.
onClose(s, index, lk) ==
    IF s.stderr[index] # NoStderr
    THEN afterThrottle(handleError([s EXCEPT !.task[index] = "rejected"],
                                   s.stderr[index], index), lk)
    ELSE afterThrottle(taskDone([s EXCEPT !.task[index] = "resolved"]), lk)

----------------------------------------------------------------------------
\* generateBindings (lines 28-186).

\* The source scan (lines 92-102) of directory dir, given as segments. A file
\* is entered in sourceFiles under its name in the file system of the model.
\* addItems is the loop of line 94 from item k of the listing on; the listing
\* and the path of an item are bound once, so that they are not computed again
\* at every use.
RECURSIVE addSources(_, _)
RECURSIVE addItems(_, _, _, _)
addItems(s, dir, items, k) ==
    IF k > Len(items) THEN <<>>
    ELSE (CHOOSE found \in
              {IF isDirectory(s, child) THEN addSources(s, child)
               ELSE IF endsWith(items[k], <<".", "c", "p", "p">>) \/ endsWith(items[k], <<".", "c">>)
                    THEN <<fileAt(s, child)>>
                    ELSE <<>> :
                  child \in {Append(dir, items[k])}} : TRUE)
         \o addItems(s, dir, items, k + 1)

addSources(s, dir) ==
    IF Below(s, dir) = {} \/ ~isDirectory(s, dir) THEN <<>>
    ELSE CHOOSE found \in {addItems(s, dir, items, 1) :
                              items \in {readdirSync(s, dir)}} : TRUE

\* Lines 105-106: sourcesDir, then the khabind directory. The state is bound
\* once, so that the scan does not compute it again for every file it looks at.
scanSources(s) ==
    CHOOSE found \in {addSources(t, Roots[LayoutNo(t.layout)][1])
                          \o addSources(t, Roots[LayoutNo(t.layout)][2]) :
                      t \in {s}} : TRUE

\* Lines 62-159: the Korefile, the source scan and the start of the compile jobs.
afterBindings(s, lk) ==
    LET s1 == WriteFile(s, Korefile) IN
    IF ~s1.jsTarget
    THEN [s1 EXCEPT !.pc = "done"]
    ELSE afterThrottle(
             throttleAll([s1 EXCEPT !.pc = "compile",
                                    !.sourceFiles = scanSources(s1)]), lk)

\* statSync throws on a missing file (lines 43, 45).
evaluateThrows(s) ==
    /\ existsSync(s, JsLibrary)
    /\ \/ ~existsSync(s, Khafile)
       \/ /\ ~(mtimeOf(s, Khafile) > mtimeOf(s, JsLibrary))
          /\ ~existsSync(s, WebidlFile)

\* A variant that also takes a khafile.js as old as the library for newer.
evaluate_NotOlder(s) ==
    IF existsSync(s, JsLibrary)
    THEN IF mtimeOf(s, Khafile) >= mtimeOf(s, JsLibrary)
         THEN [s EXCEPT !.recompileAll = TRUE]
         ELSE IF mtimeOf(s, WebidlFile) > mtimeOf(s, JsLibrary)
              THEN [s EXCEPT !.rebuildBindings = TRUE]
              ELSE s
    ELSE [s EXCEPT !.rebuildBindings = TRUE]

\* Lines 37-50.
evaluate(s) ==
    IF existsSync(s, JsLibrary)
    THEN IF mtimeOf(s, Khafile) > mtimeOf(s, JsLibrary)
         THEN [s EXCEPT !.recompileAll = TRUE]
         ELSE IF mtimeOf(s, WebidlFile) > mtimeOf(s, JsLibrary)
              THEN [s EXCEPT !.rebuildBindings = TRUE]
              ELSE s
    ELSE [s EXCEPT !.rebuildBindings = TRUE]

\* A variant that asks the generator for a full regeneration on any verdict.
generateBindings_AlwaysFull(s, lk) ==
    IF ~s.jsTarget /\ ~s.korehl
    THEN [s EXCEPT !.pc = "done",
                   !.log = @ \cup {<<"info", "not supported", 0>>}]
    ELSE IF evaluateThrows(s)
         THEN [s EXCEPT !.pc = "threw"]
         ELSE LET s1 == evaluate(s) IN
              IF s1.recompileAll \/ s1.rebuildBindings
              THEN [s1 EXCEPT !.pc = "haxe", !.haxeRuns = @ + 1,
                              !.haxeArg = TRUE]
              ELSE afterBindings(s1, lk)

\* Lines 28-60, to the await of executeHaxe.
generateBindings(s, lk) ==
    IF ~s.jsTarget /\ ~s.korehl
    THEN [s EXCEPT !.pc = "done",
                   !.log = @ \cup {<<"info", "not supported", 0>>}]
    ELSE IF evaluateThrows(s)
         THEN [s EXCEPT !.pc = "threw"]
         ELSE LET s1 == evaluate(s) IN
              IF s1.recompileAll \/ s1.rebuildBindings
              THEN [s1 EXCEPT !.pc = "haxe", !.haxeRuns = @ + 1,
                              !.haxeArg = s1.recompileAll]
              ELSE afterBindings(s1, lk)

\* The file the generator writes (line 67 names it).
GlueFile == SourceFile(1)

\* The Haxe process closes: it may have written the glue source; executeHaxe
\* rejects when it failed.
haxeClose(s, ok, wrote, lk) ==
    LET s1 == IF wrote THEN WriteFile(s, GlueFile) ELSE s IN
    IF ok THEN afterBindings(s1, lk) ELSE [s1 EXCEPT !.pc = "threw"]

\* The compiler process of a task exits: it may have written the object file.
compilerExit(s, index, wrote, err, c) ==
    LET s1 == IF wrote THEN WriteFile(s, targetFileOf(s.sourceFiles[index]))
              ELSE s
    IN  [s1 EXCEPT !.task[index] = "exited",
                   !.stderr[index] = IF err THEN s.sourceFiles[index][2]
                                     ELSE NoStderr,
                   !.code[index] = c,
                   !.produced[index] = wrote]

\* What the next invocation is told of this one: it ended without an error, and
\* every process it started did its work.
Summary(s) ==
    [done |-> s.pc = "done",
     clean |-> /\ s.rejectedIndexes = <<>>
               /\ \A i \in 1..Len(s.sourceFiles) :
                      s.needsRecompile[i] =>
                          /\ existsSync(s, targetFileOf(s.sourceFiles[i]))
                          /\ mtimeOf(s, targetFileOf(s.sourceFiles[i]))
                                 >= mtimeOf(s, s.sourceFiles[i])
               /\ (s.linkRuns > 0 => s.linkWrote),
     haxeRuns |-> s.haxeRuns]

InFlight(s) == {i \in Sources : s.task[i] \in {"checking", "running", "exited"}}

----------------------------------------------------------------------------
\* The actions.

StartRun ==
    /\ pc = "start"
    /\ \E lk \in LinkerBehaviours : Commit(generateBindings(State, lk))

HaxeClose ==
    /\ pc = "haxe"
    /\ \E ok \in BOOLEAN, wrote \in BOOLEAN, lk \in LinkerBehaviours :
           Commit(haxeClose(State, ok, wrote, lk))

CompileSourceCheck(index) ==
    /\ task[index] = "checking"
    /\ \E lk \in LinkerBehaviours : Commit(compileSourceCheck(State, index, lk))

CompilerExit(index) ==
    /\ task[index] = "running"
    /\ \E wrote \in BOOLEAN, err \in BOOLEAN, c \in {0, 1} :
           Commit(compilerExit(State, index, wrote, err, c))

OnClose(index) ==
    /\ task[index] = "exited"
    /\ \E lk \in LinkerBehaviours : Commit(onClose(State, index, lk))

\* generateBindings is called again once the invocation has ended and the
\* processes it started are gone.
NextRun ==
    /\ pc \in {"done", "threw"}
    /\ invocation < MaxRuns
    /\ InFlight(State) = {}
    /\ Commit(FreshMemory([State EXCEPT !.invocation = @ + 1,
                                        !.prev = Append(@, Summary(State))]))

Next ==
    \/ StartRun
    \/ HaxeClose
    \/ \E index \in Sources : CompileSourceCheck(index)
    \/ \E index \in Sources : CompilerExit(index)
    \/ \E index \in Sources : OnClose(index)

\* One invocation of generateBindings, from any file system and environment.
Spec == Init /\ [][Next]_vars

\* Successive invocations for a krom or html5 target with the toolchain,
\* khafile.js and the idl file in place: each starts from the file system the
\* one before left.
InitTwice ==
    /\ Init
    /\ jsTarget /\ envEMSCRIPTEN /\ ~envEmpty /\ emccArgs # <<>>
    /\ {Khafile, WebidlFile} \subseteq DOMAIN files

NextTwice == Next \/ NextRun

SpecTwice == InitTwice /\ [][NextTwice]_vars

\* One invocation with every source present: the compile pool with more jobs
\* than cpus and with jobs both queued and running.
SpecPool == InitPool /\ [][Next]_vars

\* The scheduling of the event loop and of the operating system: as long as a
\* process is running or a callback is ready, one of them takes its step. No
\* step of the model takes away what another one waits for, so every process
\* that was started exits and every callback that is ready is run.
Fairness == WF_vars(Next)

\* One invocation for a krom or html5 target over the sources of FewSources,
\* with or without EMSCRIPTEN.
InitFair ==
    /\ envEMSCRIPTEN \in BOOLEAN
    /\ envEmpty = FALSE
    /\ jsTarget = TRUE
    /\ korehl = FALSE
    /\ cpus \in 1..MaxCpus
    /\ emccArgs = <<"-s">>
    /\ layout = Standard
    /\ files \in FewFiles
    /\ InitMemory

SpecFair == InitFair /\ [][Next]_vars /\ Fairness

\* The khabind directory lies in the tree of sourcesDir.
Nested(l) == IsPrefix(Roots[LayoutNo(l)][1], Roots[LayoutNo(l)][2])

\* The file systems of a first build under layout l: no object file yet, the
\* sources of sourcesDir only where sourcesDir is a directory, and no more
\* entries in the scan than the model has jobs for, the glue file included.
LayoutFiles(l) ==
    {f \in FileSystems(PoolTops, SUBSET Sources) :
        LET present == {i \in Sources : SourceFile(i) \in DOMAIN f} IN
        /\ \A i \in Sources : TargetFile(i) \notin DOMAIN f
        /\ l.sourcesDir = <<"k", "h", "a", "f", "i", "l", "e", ".", "j", "s">> => present \subseteq {1}
        /\ Cardinality(present \cup {1})
               + (IF Nested(l) THEN 1 ELSE 0)
             <= MaxSources}

\* One invocation for a krom or html5 target with the toolchain in place, under
\* every layout of the library.
InitLayouts ==
    /\ envEMSCRIPTEN = TRUE
    /\ envEmpty = FALSE
    /\ jsTarget = TRUE
    /\ korehl = FALSE
    /\ cpus \in 1..MaxCpus
    /\ emccArgs = <<"-s">>
    /\ layout \in Layouts
    /\ files \in LayoutFiles(layout)
    /\ InitMemory

SpecLayouts == InitLayouts /\ [][Next]_vars

----------------------------------------------------------------------------
\* Properties.

Running == {i \in Sources : task[i] = "running"}

\* C1: a run in which a compile job failed never ends as a success of
\* generateBindings (its promise resolving): it ends in a failure whose message
\* is the stderr of the first job that failed.
C1_FailureReachesCaller == pc = "done" => rejectedIndexes = <<>>

\* C2: once a compile job of the run has failed, the linker is not started in
\* that run.
C2_NoLinkAfterFailure == rejectedIndexes # <<>> => linkRuns = 0

\* C3: in the step that starts the linker no compiler process is running, every
\* source found has been handed to compileSource and settled, and the linker
\* gets one object file for each source found.
C3_LinkBarrier ==
    [][linkRuns' > linkRuns =>
           /\ \A i \in Sources : task'[i] \in {"none", "resolved", "rejected"}
           /\ Len(linkArgs') = Len(sourceFiles')]_vars

\* C4: once the pool has seen a job fail, no job that was still queued is
\* started, in that step or later; a compiler process that is running is left
\* alone until it exits by itself.
C4_FailFast ==
    [][rejectedIndexes' # <<>> =>
           \A i \in Sources :
               /\ task[i] = "queued" => task'[i] = "queued"
               /\ task[i] = "running" => task'[i] \in {"running", "exited"}]_vars

\* A job has failed before any job resolved, a job started with it has run to
\* its end and resolved since, and a job is still queued.
C4_Witness ==
    /\ rejectedIndexes # <<>>
    /\ amountDone = 0
    /\ \E i \in Sources : task[i] = "queued"
    /\ \E j \in Sources : task[j] = "resolved" /\ compileRuns[j] = 1

\* C5: at most os.cpus().length compiler processes run at the same time.
C5_ConcurrencyLimit == Cardinality(Running) <= cpus

\* As many compilers as cpus are running and a job waits for a slot.
C5_Witness ==
    /\ cpus = MaxCpus
    /\ Cardinality(Running) = cpus
    /\ \E i \in Sources : task[i] = "queued"

\* C6: when a compile job has failed, generateBindings goes past the compile
\* stage only once no compiler process is running any more.
C6_DrainBeforeSurface == (rejectedIndexes # <<>> /\ pc # "compile") => Running = {}

\* The verdict the two flags stand for, and the verdict the files call for.
Verdict(all, bindings) ==
    IF all THEN "RebuildAll"
    ELSE IF bindings THEN "RebuildBindingsOnly" ELSE "NoOp"

ExpectedVerdict ==
    IF JsLibrary \notin DOMAIN files THEN "RebuildBindingsOnly"
    ELSE IF files[Khafile] > files[JsLibrary] THEN "RebuildAll"
    ELSE IF files[WebidlFile] > files[JsLibrary] THEN "RebuildBindingsOnly"
    ELSE "NoOp"

\* C7: the verdict computed at the start is RebuildBindingsOnly when the library
\* is missing; else RebuildAll when khafile.js is newer than the library,
\* whatever the time of the idl file; else RebuildBindingsOnly when the idl file
\* is newer than the library; else NoOp. With the three files present the
\* evaluation does not throw.
C7_StalenessVerdict ==
    [][pc = "start" /\ (jsTarget \/ korehl) =>
           /\ TopFiles \subseteq DOMAIN files => pc' # "threw"
           /\ pc' # "threw" =>
                  Verdict(recompileAll', rebuildBindings') = ExpectedVerdict]_vars

\* khafile.js and the idl file are both newer than the library, and the verdict
\* is RebuildAll.
C7_Witness ==
    /\ pc = "haxe"
    /\ recompileAll
    /\ TopFiles \subseteq DOMAIN files
    /\ files[WebidlFile] > files[JsLibrary]
    /\ files[Khafile] > files[JsLibrary]

\* C8 as claimed: a source is skipped exactly when its object file exists, is
\* newer than the source and the verdict is not RebuildAll.
C8_SkipOnlyIfNewer ==
    [][\A i \in Sources :
           task[i] = "checking" /\ task'[i] # "checking" =>
               (task'[i] = "resolved" <=>
                    /\ targetFileOf(sourceFiles[i]) \in DOMAIN files
                    /\ files[targetFileOf(sourceFiles[i])] > files[sourceFiles[i]]
                    /\ ~recompileAll)]_vars

\* The object file of job i exists, is not older than its source, and the
\* verdict is not RebuildAll.
UpToDate(i) ==
    /\ targetFileOf(sourceFiles[i]) \in DOMAIN files
    /\ files[targetFileOf(sourceFiles[i])] >= files[sourceFiles[i]]
    /\ ~recompileAll

\* C8 as amended: a source is skipped exactly when its object file exists, the
\* source is not newer than it (equal times count as up to date) and the verdict
\* is not RebuildAll; a skipped source starts no compiler; every other source
\* needs compiling, and its compiler is started when EMSCRIPTEN is set.
C8_SkipDecision ==
    [][\A i \in Sources :
           task[i] = "checking" /\ task'[i] # "checking" =>
               /\ task'[i] = "resolved" <=> UpToDate(i)
               /\ UpToDate(i) => compileRuns'[i] = 0 /\ ~needsRecompile'[i]
               /\ (~UpToDate(i) /\ envEMSCRIPTEN) =>
                      /\ task'[i] = "running"
                      /\ compileRuns'[i] = 1
                      /\ needsRecompile'[i]]_vars

\* Of two sources, one whose object file has the time of the source was skipped
\* and the other is being compiled.
C8_Witness ==
    \E i, j \in Sources :
        /\ task[i] = "resolved" /\ compileRuns[i] = 0
        /\ files[targetFileOf(sourceFiles[i])] = files[sourceFiles[i]]
        /\ task[j] = "running"

\* The step in which Throttle.all settles and generateBindings reaches line 162.
LinkReached ==
    throttle \in {"none", "pending"} /\ throttle' \in {"resolved", "rejected"}

C10_Idempotent ==
    (invocation > 1 /\ prev[invocation - 1].done /\ prev[invocation - 1].clean) =>
        /\ ~recompileAll /\ ~rebuildBindings
        /\ haxeRuns = 0
        /\ \A i \in Sources : compileRuns[i] = 0
        /\ linkRuns = 0
        /\ pc # "threw"

\* C11: when the compile stage ends with no source compiled and the library in
\* place, ensureEmscripten has not been called, no linker is started and the run
\* ends without an error, whether EMSCRIPTEN is set or not; and ensureEmscripten
\* is called only by a compile job whose source needs compiling, or by the link
\* stage when it has to link.
C11_LazyResolution ==
    [][/\ (LinkReached /\ ~invalidateCache /\ JsLibrary \in DOMAIN files) =>
              ensureCalls' = 0 /\ linkRuns' = 0 /\ pc' = "done"
       /\ ensureCalls' > ensureCalls =>
              \/ \E i \in Sources :
                     task[i] = "checking" /\ task'[i] # "checking" /\ ~UpToDate(i)
              \/ LinkReached /\ (invalidateCache \/ JsLibrary \notin DOMAIN files)]_vars

\* Without EMSCRIPTEN, a run over existing sources skipped them all, found the
\* library and ended without a call of ensureEmscripten.
C11_Witness ==
    /\ pc = "done"
    /\ jsTarget
    /\ ~envEMSCRIPTEN
    /\ sourceFiles # <<>>
    /\ throttle = "resolved"
    /\ ensureCalls = 0

\* C12: in one run process.env.EMSCRIPTEN is read at most once, however many
\* sources are compiled and whether or not the link runs.
C12_Memoized == envReads <= 1

\* C13: without EMSCRIPTEN no compiler and no linker is started, and no call of
\* ensureEmscripten lets its caller go on: no compile job gets past lines 121
\* and 124 to mark its source for compiling.
C13_AbsentToolchain ==
    ~envEMSCRIPTEN =>
        /\ \A i \in Sources : compileRuns[i] = 0 /\ ~needsRecompile[i]
        /\ linkRuns = 0
        /\ ~invalidateCache

\* C14: when a compile job finds EMSCRIPTEN unset, the run comes to an end with
\* a failure: generateBindings throws instead of staying in the compile stage
\* for ever or ending as a success.
C14_ConfigErrorTerminates ==
    (\E i \in Sources : task[i] = "hung") ~> (pc = "threw")

\* C15: at the close of its compiler process a compile job is rejected exactly
\* when the captured stderr is not empty, and then with that stderr; otherwise
\* it is resolved. The exit code plays no part.
C15_StderrDecides ==
    [][\A i \in Sources :
           task[i] = "exited" /\ task'[i] # "exited" =>
               /\ task'[i] \in {"resolved", "rejected"}
               /\ task'[i] = "rejected" <=> stderr[i] # NoStderr
               /\ task'[i] = "rejected" => taskResults'[i] = stderr[i]]_vars

\* A job was rejected although its compiler exited with code 0, and another
\* was resolved although its compiler exited with code 1.
C15_Witness ==
    \E i, j \in Sources :
        /\ task[i] = "rejected" /\ code[i] = 0 /\ stderr[i] # NoStderr
        /\ task[j] = "resolved" /\ code[j] = 1 /\ compileRuns[j] = 1

\* C16: the binding generator is started once in a run whose verdict is not
\* NoOp and never in a run whose verdict is NoOp; it is told to regenerate
\* everything exactly when the verdict is RebuildAll; and until it has closed
\* no source is looked for and no compile job is started.
C16_GeneratorOnce ==
    /\ pc # "start" =>
           haxeRuns = (IF Verdict(recompileAll, rebuildBindings) # "NoOp"
                       THEN 1 ELSE 0)
    /\ haxeRuns > 0 => haxeArg = recompileAll
    /\ pc = "haxe" =>
           /\ sourceFiles = <<>>
           /\ throttle = "none"
           /\ \A i \in Sources : task[i] = "none" /\ compileRuns[i] = 0

\* After a generator run for the verdict RebuildAll a compiler is running.
C16_Witness ==
    /\ pc = "compile"
    /\ haxeRuns = 1
    /\ haxeArg
    /\ recompileAll
    /\ \E i \in Sources : task[i] = "running"

\* C17: once the linker has been run, whatever it printed, the run has ended
\* without an error; what it printed to stderr was logged as an error, and not
\* otherwise, and what it printed to stdout was logged as information.
C17_LinkerStderrNotFatal ==
    linkRuns > 0 =>
        /\ linkRuns = 1
        /\ pc = "done"
        /\ output.stderr <=> <<"error", "linker stderr", 0>> \in log
        /\ <<"info", "linker stderr", 0>> \notin log
        /\ output.stdout <=> <<"info", "linker stdout", 0>> \in log

\* The linker printed to stderr and to stdout and wrote no library, and the run
\* ended without an error.
C17_Witness ==
    /\ linkRuns = 1
    /\ output.stderr
    /\ output.stdout
    /\ ~linkWrote
    /\ pc = "done"

\* C18: when the compile stage ends, invalidateCache is set exactly when a
\* compiler was started for at least one source in this run; and once set it
\* stays set for the rest of the run.
C18_AnyChanged ==
    [][/\ LinkReached =>
              (invalidateCache' <=> \E i \in Sources : compileRuns'[i] > 0)
       /\ invalidateCache => invalidateCache']_vars

\* The compile stage ended with one source skipped and another compiled, and
\* invalidateCache is set.
C18_Witness ==
    /\ throttle = "resolved"
    /\ invalidateCache
    /\ \E i, j \in Sources :
           /\ task[i] = "resolved" /\ compileRuns[i] = 0
           /\ task[j] = "resolved" /\ compileRuns[j] = 1

\* C19: every source found is one job of the pool; the jobs are started in
\* their order, each at most once, a job that was started is never started
\* again, at most one compiler is ever started for a job, and a job that was
\* rejected stays rejected without another compiler.
C19_HandedOnce ==
    [][/\ currentTaskIndex' <= Len(sourceFiles')
       /\ Len(targetFiles') = currentTaskIndex'
       /\ \A i \in Sources :
              /\ (i > currentTaskIndex' /\ i <= Len(sourceFiles')) <=>
                     task'[i] = "queued"
              /\ i <= currentTaskIndex' =>
                     targetFiles'[i] = targetFileOf(sourceFiles'[i])
              /\ compileRuns'[i] <= 1
              /\ task[i] \notin {"none", "queued", "checking"} =>
                     task'[i] \notin {"none", "queued", "checking"}
              /\ task[i] = "rejected" =>
                     task'[i] = "rejected" /\ compileRuns'[i] = compileRuns[i]]_vars

\* A job was rejected after its one compiler; since then the run has ended and
\* every other compiler has exited and closed.
C19_Witness ==
    /\ pc = "done"
    /\ InFlight(State) = {}
    /\ \E i, j \in Sources :
           /\ task[i] = "rejected" /\ compileRuns[i] = 1
           /\ task[j] = "resolved" /\ compileRuns[j] = 1

\* C20: in a run without a failed compile job the linker is given the object
\* file of every source found, skipped or compiled, once each and in the order
\* in which the sources were found, whatever the order in which the jobs end.
C20_LinkerInput ==
    (linkRuns > 0 /\ rejectedIndexes = <<>>) =>
        linkArgs = [i \in 1..Len(sourceFiles) |-> targetFileOf(sourceFiles[i])]

\* The linker ran over all the sources after a run without failure in which a
\* later source was compiled before an earlier one: its object file, written
\* in this run, is the older of the two.
C20_Witness ==
    /\ linkRuns = 1
    /\ rejectedIndexes = <<>>
    /\ Len(linkArgs) = MaxSources
    /\ \E i, j \in Sources :
           /\ i < j
           /\ compileRuns[i] = 1 /\ compileRuns[j] = 1
           /\ targetFileOf(sourceFiles[i]) \in DOMAIN files
           /\ targetFileOf(sourceFiles[j]) \in DOMAIN files
           /\ files[targetFileOf(sourceFiles[j])] > MaxMtime
           /\ files[targetFileOf(sourceFiles[j])] < files[targetFileOf(sourceFiles[i])]

\* The files below a scan root whose name ends in .c or .cpp.
Discoverable ==
    {AllFiles[k] : k \in
        {n \in 1..Len(AllFiles) :
            LET p == Paths[LayoutNo(layout)][n] IN
            /\ AllFiles[n] \in DOMAIN files
            /\ endsWith(p[Len(p)], <<".", "c">>) \/ endsWith(p[Len(p)], <<".", "c", "p", "p">>)
            /\ \E r \in 1..2 :
                   /\ IsPrefix(Roots[LayoutNo(layout)][r], p)
                   /\ Roots[LayoutNo(layout)][r] # p}}

\* C21: once the scan has run, sourceFiles lists exactly the files of the scan
\* roots whose name ends in .c or .cpp, each of them once; a root that is
\* missing or is a file adds nothing and the scan does not throw.
C21_Discovery ==
    throttle # "none" =>
        /\ {sourceFiles[i] : i \in 1..Len(sourceFiles)} = Discoverable
        /\ \A i, j \in 1..Len(sourceFiles) :
               sourceFiles[i] = sourceFiles[j] => i = j

\* The directory of the object files (line 114), as segments.
BytecodeDir == split(resolve(libRoot, <<"k", "h", "a", "b", "i", "n", "d", "/", "b", "y", "t", "e", "c", "o", "d", "e">>))

\* The path of the object file of entry i of sourceFiles, as segments.
ObjectPath(i) == Paths[LayoutNo(layout)][4 + MaxSources + sourceFiles[i][2]]

\* C22: the object files of two different source files found by the scan have
\* different paths, and each of them lies below <libRoot>/khabind/bytecode.
C22_Injective ==
    \A i, j \in 1..Len(sourceFiles) :
        /\ IsPrefix(BytecodeDir, ObjectPath(i))
        /\ sourceFiles[i] # sourceFiles[j] => ObjectPath(i) # ObjectPath(j)

\* C23: a run that starts with khafile.js or the idl file missing still gets a
\* verdict from the evaluation: the evaluation does not throw for the time of a
\* file that is not there.
C23_VerdictWithoutFile ==
    [][/\ pc = "start"
       /\ jsTarget \/ korehl
       /\ ~({Khafile, WebidlFile} \subseteq DOMAIN files)
       => pc' # "threw"]_vars

\* C24: in the step that starts the linker, every object file passed to it
\* exists.
C24_ObjectsExist ==
    [][linkRuns' > linkRuns =>
           \A k \in 1..Len(linkArgs') : linkArgs'[k] \in DOMAIN files']_vars

\* The object file of entry i of sourceFiles.
ObjectFile(i) == targetFileOf(sourceFiles[i])

\* The run has ended without an error, every compiler it started has ended
\* with exit code 0, nothing on stderr and its object file written, and the
\* linker has written the library.
CleanBuild ==
    /\ pc = "done"
    /\ rejectedIndexes = <<>>
    /\ \A i \in 1..Len(sourceFiles) :
           compileRuns[i] > 0 =>
               produced[i] /\ code[i] = 0 /\ stderr[i] = NoStderr
    /\ linkRuns > 0
    /\ linkWrote

\* C25: after such a run every source found has an object file that is not
\* older than the source, and the library exists and is not older than
\* khafile.js, the idl file or any of these object files.
C25_UpToDate ==
    CleanBuild =>
        /\ JsLibrary \in DOMAIN files
        /\ \A i \in 1..Len(sourceFiles) :
               /\ ObjectFile(i) \in DOMAIN files
               /\ files[ObjectFile(i)] >= files[sourceFiles[i]]
               /\ files[JsLibrary] >= files[ObjectFile(i)]
        /\ Khafile \in DOMAIN files => files[JsLibrary] >= files[Khafile]
        /\ WebidlFile \in DOMAIN files => files[JsLibrary] >= files[WebidlFile]

\* Such a run in which one source was compiled and another one, whose object
\* file was up to date, was skipped.
C25_Witness ==
    /\ CleanBuild
    /\ \E i, j \in 1..Len(sourceFiles) : compileRuns[i] > 0 /\ compileRuns[j] = 0
    /\ {Khafile, WebidlFile} \subseteq DOMAIN files

\* C26: with EMSCRIPTEN set, and every process that was started exiting, the
\* run ends, and from some point on no compile job that was started is left
\* unsettled, whatever jobs succeed or fail and however many are still queued.
C26_Terminates ==
    <>[](envEMSCRIPTEN =>
             /\ pc \in {"done", "threw"}
             /\ \A i \in Sources :
                    task[i] \in {"none", "queued", "resolved", "rejected"})

\* A run that has ended after a failed job, with a job that was never started
\* and no job left running.
C26_Witness ==
    /\ envEMSCRIPTEN
    /\ pc = "done"
    /\ rejectedIndexes # <<>>
    /\ \E i \in Sources : task[i] = "queued"
    /\ \A i \in Sources : task[i] \in {"none", "queued", "resolved", "rejected"}

====
